---- MODULE Spec2Model ----
(***************************************************************************)
(* Free-list allocator of src/src/alloc.c (tumalloc, tucalloc, turealloc,  *)
(* tufree over an sbrk-grown region).                                      *)
(*                                                                         *)
(* Memory is an array of 8-byte words indexed by byte address.  A header   *)
(* {size, magic} and a free_block {size, next} occupy the same two words   *)
(* of a block (offsets 0 and 8); the payload starts at offset 16.          *)
(* Request sizes are multiples of 8, so every access is word aligned.      *)
(***************************************************************************)
EXTENDS Integers, FiniteSets, Sequences, TLC

VARIABLES HEAD, mem, brk, status, live, op, ret, calls

vars == <<HEAD, mem, brk, status, live, op, ret, calls>>

---------------------------------------------------------------------------
(* Program constants *)

NULL == 0

ALIGNMENT == 16

MAGIC == 19088743           \* 0x01234567

SizeofHeader == 16          \* sizeof(header):     size_t size; int magic (padded)

SizeofFreeBlock == 16       \* sizeof(free_block): size_t size; free_block *next

WordSize == 8               \* one field of header / free_block

(* Bounds of the model *)

HeapBase == 256 * ALIGNMENT  \* the initial program break, 16-aligned

MaxChunks == 5              \* the region may grow to MaxChunks * ALIGNMENT bytes

MaxCalls == 8               \* the caller makes at most MaxCalls calls and writes

HeapLimit == HeapBase + MaxChunks * ALIGNMENT

Addr == {HeapBase + WordSize * i : i \in 0..(2 * MaxChunks - 1)}

Sizes == {0, 8, 16, 32}              \* sizes a caller requests

Counts == {0, 2}                     \* element counts passed to tucalloc

ElemSizes == {0, 8}                  \* element sizes passed to tucalloc

\* the word the caller writes into its payloads: a pointer into the heap
Data == HeapBase + WordSize

---------------------------------------------------------------------------
(* The allocator state as a value: S.HEAD, S.mem, S.brk, S.status.         *)
(* status: "running"; "aborted" after abort(); "undefined" after an access *)
(* outside the region or through NULL; "hung" when a list scan never       *)
(* reaches NULL.                                                           *)

Cur == [HEAD |-> HEAD, mem |-> mem, brk |-> brk, status |-> status]

Fault(S, kind) == [S EXCEPT !.status = kind]

Res(S, r, e) == [S |-> S, ret |-> r, ext |-> e]

\* a word of the region that the process may read and write
InHeap(S, a) == a \in Addr /\ a + WordSize <= S.brk

\* both fields of a header / free_block at a are inside the region
NodeOK(S, a) == InHeap(S, a) /\ InHeap(S, a + WordSize)

Put(S, a, v) == [S EXCEPT !.mem[a] = v]

RoundUp(n) == ((n + ALIGNMENT - 1) \div ALIGNMENT) * ALIGNMENT

---------------------------------------------------------------------------
(* List algorithms *)

\* split(block, size): block is a readable node
split(S, block, size) ==
    IF S.mem[block] < size + SizeofFreeBlock
    THEN Res(S, NULL, 0)
    ELSE LET new_block == block + size + SizeofFreeBlock IN
         IF ~NodeOK(S, new_block)
         THEN Res(Fault(S, "undefined"), NULL, 0)
         ELSE LET S1 == Put(S, new_block, S.mem[block] - size - SizeofFreeBlock)
                  S2 == Put(S1, new_block + WordSize, S1.mem[block + WordSize])
                  S3 == Put(S2, block, size)
              IN Res(S3, block, 0)

\* the while loops: k = "ok" with the value found, "undefined" or "hung"
Found(v) == [k |-> "ok", v |-> v]

Stuck(kind) == [k |-> kind, v |-> NULL]

RECURSIVE find_prev_loop(_, _, _, _)
find_prev_loop(S, block, curr, seen) ==
    IF curr = NULL THEN Found(NULL)
    ELSE IF ~InHeap(S, curr) THEN Stuck("undefined")
    ELSE IF curr \in seen THEN Stuck("hung")
    ELSE IF curr + S.mem[curr] + SizeofFreeBlock = block THEN Found(curr)
    ELSE IF ~InHeap(S, curr + WordSize) THEN Stuck("undefined")
    ELSE find_prev_loop(S, block, S.mem[curr + WordSize], seen \cup {curr})

find_prev(S, block) == find_prev_loop(S, block, S.HEAD, {})

RECURSIVE find_next_loop(_, _, _, _)
find_next_loop(S, block_end, curr, seen) ==
    IF curr = NULL THEN Found(NULL)
    ELSE IF curr = block_end THEN Found(curr)
    ELSE IF ~InHeap(S, curr + WordSize) THEN Stuck("undefined")
    ELSE IF curr \in seen THEN Stuck("hung")
    ELSE find_next_loop(S, block_end, S.mem[curr + WordSize], seen \cup {curr})

find_next(S, block) ==
    find_next_loop(S, block + S.mem[block] + SizeofFreeBlock, S.HEAD, {})

RECURSIVE remove_loop(_, _, _, _)
remove_loop(S, block, curr, seen) ==
    IF curr = NULL THEN Found(NULL)
    ELSE IF ~InHeap(S, curr + WordSize) THEN Stuck("undefined")
    ELSE IF curr \in seen THEN Stuck("hung")
    ELSE IF S.mem[curr + WordSize] = block THEN Found(curr)
    ELSE remove_loop(S, block, S.mem[curr + WordSize], seen \cup {curr})

\* remove_free_block(block): block is a readable node
remove_free_block(S, block) ==
    IF S.HEAD = block
    THEN [S EXCEPT !.HEAD = S.mem[block + WordSize]]
    ELSE LET r == remove_loop(S, block, S.HEAD, {}) IN
         IF r.k # "ok" THEN Fault(S, r.k)
         ELSE IF r.v = NULL THEN S
         ELSE Put(S, r.v + WordSize, S.mem[block + WordSize])

\* the second half of coalesce: merge with the next neighbour
coalesce_next(S, block, next) ==
    IF next = NULL THEN S
    ELSE IF block + S.mem[block] + SizeofFreeBlock # next THEN S
    ELSE IF ~NodeOK(S, next) THEN Fault(S, "undefined")
    ELSE LET S1 == Put(S, block, S.mem[block] + S.mem[next] + SizeofFreeBlock)
         IN Put(S1, block + WordSize, S1.mem[next + WordSize])

\* the first half of coalesce: merge into the previous neighbour; the result
\* is the state and the block the second half works on
coalesce_prev(S, block, prev) ==
    IF prev = NULL THEN [S |-> S, block |-> block]
    ELSE IF prev + S.mem[prev] + SizeofFreeBlock # block THEN [S |-> S, block |-> block]
    ELSE LET S1 == Put(S, prev, S.mem[prev] + S.mem[block] + SizeofFreeBlock)
             S2 == IF S1.mem[prev + WordSize] = block
                   THEN Put(S1, prev + WordSize, S1.mem[block + WordSize])
                   ELSE S1
         IN [S |-> S2, block |-> prev]

\* coalesce(block): block is a readable node, not NULL
coalesce(S, block) ==
    LET p == find_prev(S, block) IN
    IF p.k # "ok" THEN Fault(S, p.k)
    ELSE LET n == find_next(S, block) IN
         IF n.k # "ok" THEN Fault(S, n.k)
         ELSE LET c == coalesce_prev(S, block, p.v)
              IN coalesce_next(c.S, c.block, n.v)

---------------------------------------------------------------------------
(* Region source *)

\* sbrk(n) returns the old break, or fails when the region would pass its limit
sbrk_ok(S, n) == S.brk + n <= HeapLimit

\* do_alloc(size)
do_alloc(S, size) ==
    IF size <= 0 THEN Res(S, NULL, 0)
    ELSE LET n == RoundUp(size) IN
         IF ~sbrk_ok(S, n) THEN Res(S, NULL, 0)
         ELSE Res([S EXCEPT !.brk = S.brk + n], S.brk, n)

---------------------------------------------------------------------------
(* Allocator API *)

\* hdr->size = size; hdr->magic = 0x01234567; return hdr + 1
stamp(S, hdr, size, ext) ==
    Res(Put(Put(S, hdr, size), hdr + WordSize, MAGIC), hdr + SizeofHeader, ext)

\* the scan of tumalloc: the first block with size + sizeof(header) <= block->size
RECURSIVE first_fit_loop(_, _, _, _)
first_fit_loop(S, size, block, seen) ==
    IF block = NULL THEN Found(NULL)
    ELSE IF ~InHeap(S, block) THEN Stuck("undefined")
    ELSE IF block \in seen THEN Stuck("hung")
    ELSE IF size + SizeofHeader <= S.mem[block] THEN Found(block)
    ELSE IF ~InHeap(S, block + WordSize) THEN Stuck("undefined")
    ELSE first_fit_loop(S, size, S.mem[block + WordSize], seen \cup {block})

\* the scan started at the second node of the list
first_fit_skip(S, size) ==
    IF ~InHeap(S, S.HEAD + WordSize) THEN Stuck("undefined")
    ELSE first_fit_loop(S, size, S.mem[S.HEAD + WordSize], {S.HEAD})

first_fit(S, size) == first_fit_loop(S, size, S.HEAD, {})

\* tumalloc, free list empty
tumalloc_empty(S, size) ==
    LET raw == do_alloc(S, size + SizeofHeader) IN
    IF raw.ret = NULL THEN Res(S, NULL, 0)
    ELSE stamp(raw.S, raw.ret, size, raw.ext)

\* tumalloc, a block of the list fits: split it or take it whole
tumalloc_reuse(S, size, block) ==
    IF ~InHeap(S, block + WordSize) THEN Res(Fault(S, "undefined"), NULL, 0)
    ELSE LET whole == S.mem[block] + SizeofFreeBlock
             sp == split(S, block, size + SizeofHeader)
         IN IF sp.S.status # "running" THEN Res(sp.S, NULL, 0)
            ELSE LET ext == IF sp.ret = NULL THEN whole
                            ELSE size + SizeofHeader + SizeofFreeBlock
                     S1 == remove_free_block(sp.S, block)
                 IN IF S1.status # "running" THEN Res(S1, NULL, 0)
                    ELSE stamp(S1, block, size, ext)

\* tumalloc, no block of the list fits: the result of do_alloc is used unchecked
tumalloc_fallback(S, size) ==
    LET raw == do_alloc(S, size + SizeofHeader) IN
    IF raw.ret = NULL THEN Res(Fault(S, "undefined"), NULL, 0)
    ELSE stamp(raw.S, raw.ret, size, raw.ext)

\* tumalloc(size)
tumalloc(S, size) ==
    IF S.HEAD = NULL THEN tumalloc_empty(S, size)
    ELSE LET f == first_fit(S, size) IN
         IF f.k # "ok" THEN Res(Fault(S, f.k), NULL, 0)
         ELSE IF f.v # NULL THEN tumalloc_reuse(S, size, f.v)
         ELSE tumalloc_fallback(S, size)

\* the words of [ptr, ptr + n)
Words(ptr, n) == {ptr + WordSize * i : i \in 0..((n \div WordSize) - 1)}

\* memset(ptr, 0, n)
memset0(S, ptr, n) ==
    IF \E a \in Words(ptr, n) : ~InHeap(S, a) THEN Fault(S, "undefined")
    ELSE [S EXCEPT !.mem = [a \in Addr |-> IF a \in Words(ptr, n) THEN 0 ELSE S.mem[a]]]

\* tucalloc without the memset
tucalloc_nozero(S, num, size) ==
    LET total_size == num * size IN
    IF total_size = 0 THEN Res(S, NULL, 0)
    ELSE LET r == tumalloc(S, total_size) IN
         IF r.S.status # "running" \/ r.ret = NULL THEN Res(r.S, NULL, 0)
         ELSE Res(r.S, r.ret, r.ext)

\* tucalloc(num, size)
tucalloc(S, num, size) ==
    LET total_size == num * size IN
    IF total_size = 0 THEN Res(S, NULL, 0)
    ELSE LET r == tumalloc(S, total_size) IN
         IF r.S.status # "running" \/ r.ret = NULL THEN Res(r.S, NULL, 0)
         ELSE Res(memset0(r.S, r.ret, total_size), r.ret, r.ext)

\* tufree without the sentinel test
tufree_unchecked(S, ptr) ==
    LET hdr == ptr - SizeofHeader IN
    IF ~NodeOK(S, hdr) THEN Fault(S, "undefined")
    ELSE LET S2 == Put(S, hdr + WordSize, S.HEAD)
             S3 == [S2 EXCEPT !.HEAD = hdr]
         IN coalesce(S3, hdr)

\* tufree(ptr)
tufree(S, ptr) ==
    LET hdr == ptr - SizeofHeader IN
    IF ~NodeOK(S, hdr) THEN Fault(S, "undefined")
    ELSE IF S.mem[hdr + WordSize] = MAGIC
    THEN LET S1 == Put(S, hdr, S.mem[hdr])
             S2 == Put(S1, hdr + WordSize, S1.HEAD)
             S3 == [S2 EXCEPT !.HEAD = hdr]
         IN coalesce(S3, hdr)
    ELSE Fault(S, "aborted")

\* memcpy(dst, src, n), one word after the other from the low end
RECURSIVE copy_fwd(_, _, _, _)
copy_fwd(S, dst, src, n) ==
    IF n <= 0 THEN S
    ELSE copy_fwd(Put(S, dst, S.mem[src]), dst + WordSize, src + WordSize, n - WordSize)

\* memcpy(dst, src, n) as if through a buffer
copy_buf(S, dst, src, n) ==
    [S EXCEPT !.mem = [a \in Addr |-> IF a \in Words(dst, n)
                                      THEN S.mem[src + (a - dst)]
                                      ELSE S.mem[a]]]

\* memcpy(dst, src, n); overlapping ranges are undefined behaviour, whose
\* outcome (fwd = TRUE: low-to-high copy, else buffered copy) the build picks
memcpy(S, dst, src, n, fwd) ==
    IF \E a \in Words(dst, n) \cup Words(src, n) : ~InHeap(S, a)
    THEN Fault(S, "undefined")
    ELSE IF fwd THEN copy_fwd(S, dst, src, n) ELSE copy_buf(S, dst, src, n)

\* turealloc, the old block is too small: allocate, copy, keep the old block
turealloc_grow(S, ptr, new_size, fwd) ==
    LET old_header == ptr - SizeofHeader
        r == tumalloc(S, new_size)
    IN IF r.S.status # "running" \/ r.ret = NULL THEN Res(r.S, NULL, 0)
       ELSE LET old_size == r.S.mem[old_header]
                copy_size == IF old_size < new_size THEN old_size ELSE new_size
            IN Res(memcpy(r.S, r.ret, ptr, copy_size, fwd), r.ret, r.ext)

\* turealloc keeping the block only when it is strictly larger
turealloc_strict(S, ptr, new_size, fwd) ==
    IF ptr = NULL THEN tumalloc(S, new_size)
    ELSE IF new_size = 0 THEN Res(tufree(S, ptr), NULL, 0)
    ELSE IF ~InHeap(S, ptr - SizeofHeader) THEN Res(Fault(S, "undefined"), NULL, 0)
    ELSE IF S.mem[ptr - SizeofHeader] > new_size THEN Res(S, ptr, 0)
    ELSE turealloc_grow(S, ptr, new_size, fwd)

\* turealloc returning NULL for new_size = 0 without releasing the block
turealloc_keep(S, ptr, new_size, fwd) ==
    IF ptr = NULL THEN tumalloc(S, new_size)
    ELSE IF new_size = 0 THEN Res(S, NULL, 0)
    ELSE IF ~InHeap(S, ptr - SizeofHeader) THEN Res(Fault(S, "undefined"), NULL, 0)
    ELSE IF S.mem[ptr - SizeofHeader] >= new_size THEN Res(S, ptr, 0)
    ELSE turealloc_grow(S, ptr, new_size, fwd)

\* turealloc(ptr, new_size)
turealloc(S, ptr, new_size, fwd) ==
    IF ptr = NULL THEN tumalloc(S, new_size)
    ELSE IF new_size = 0 THEN Res(tufree(S, ptr), NULL, 0)
    ELSE IF ~InHeap(S, ptr - SizeofHeader) THEN Res(Fault(S, "undefined"), NULL, 0)
    ELSE IF S.mem[ptr - SizeofHeader] >= new_size THEN Res(S, ptr, 0)
    ELSE turealloc_grow(S, ptr, new_size, fwd)

---------------------------------------------------------------------------
(* The caller: the pointers it holds and the calls it makes *)

\* live[p] = the size requested for p and the bytes of the block handed out
Live == DOMAIN live

Own(l, p, size, ext) ==
    [q \in DOMAIN l \cup {p} |-> IF q = p THEN [size |-> size, ext |-> ext] ELSE l[q]]

Disown(l, p) == [q \in DOMAIN l \ {p} |-> l[q]]

\* the last call: its name and its pointer argument; for a release, also the
\* size the pointer was requested with and the bytes of its block
Call(name, ptr) == [name |-> name, ptr |-> ptr, size |-> 0, ext |-> 0]

Release(name, ptr, l) == [name |-> name, ptr |-> ptr, size |-> l.size, ext |-> l.ext]

\* the state after a call that left state R.S and returned R.ret
Return(R) ==
    /\ HEAD' = R.S.HEAD
    /\ mem' = R.S.mem
    /\ brk' = R.S.brk
    /\ status' = R.S.status
    /\ ret' = IF R.S.status = "running" THEN R.ret ELSE NULL

Init ==
    /\ HEAD = NULL
    /\ mem = [a \in Addr |-> 0]
    /\ brk = HeapBase
    /\ status = "running"
    /\ live = [p \in {} |-> [size |-> 0, ext |-> 0]]
    /\ op = Call("init", NULL)
    /\ ret = NULL
    /\ calls = 0

\* one more call by a running caller
Step ==
    /\ status = "running"
    /\ calls < MaxCalls
    /\ calls' = calls + 1

Malloc(size) ==
    /\ Step
    /\ \E R \in {tumalloc(Cur, size)} :
       /\ Return(R)
       /\ live' = IF R.S.status = "running" /\ R.ret # NULL
                  THEN Own(live, R.ret, size, R.ext) ELSE live
    /\ op' = Call("tumalloc", NULL)

Calloc(num, size) ==
    /\ Step
    /\ \E R \in {tucalloc(Cur, num, size)} :
       /\ Return(R)
       /\ live' = IF R.S.status = "running" /\ R.ret # NULL
                  THEN Own(live, R.ret, num * size, R.ext) ELSE live
    /\ op' = Call("tucalloc", NULL)

\* the cases of turealloc in which tumalloc is called
Grows(S, ptr, new_size) ==
    \/ ptr = NULL
    \/ new_size # 0 /\ InHeap(S, ptr - SizeofHeader) /\ S.mem[ptr - SizeofHeader] < new_size

Realloc(ptr, new_size, fwd) ==
    /\ Step
    /\ ptr \in Live \cup {NULL}
    /\ fwd \/ (ptr # NULL /\ Grows(Cur, ptr, new_size))
    /\ \E R \in {turealloc(Cur, ptr, new_size, fwd)} :
       /\ Return(R)
       /\ live' = IF R.S.status # "running" THEN live
                  ELSE IF ptr # NULL /\ new_size = 0 THEN Disown(live, ptr)
                  ELSE IF R.ret # NULL /\ R.ret # ptr THEN Own(live, R.ret, new_size, R.ext)
                  ELSE live
    /\ op' = Call("turealloc", ptr)

Free(ptr) ==
    /\ Step
    /\ ptr \in Live
    /\ \E S \in {tufree(Cur, ptr)} : Return(Res(S, NULL, 0))
    /\ live' = IF status' = "running" THEN Disown(live, ptr) ELSE live
    /\ op' = Release("tufree", ptr, live[ptr])

\* the caller fills a payload it owns with the word Data
Fill(ptr) ==
    /\ Step
    /\ ptr \in Live
    /\ live[ptr].size > 0
    /\ \A a \in Words(ptr, live[ptr].size) : a \in Addr /\ a + WordSize <= brk
    /\ mem' = [a \in Addr |-> IF a \in Words(ptr, live[ptr].size) THEN Data ELSE mem[a]]
    /\ op' = Call("fill", ptr)
    /\ ret' = NULL
    /\ UNCHANGED <<HEAD, brk, status, live>>

\* the caller damages the sentinel in front of a payload it owns and then
\* releases it
DamagedFree(ptr) ==
    /\ Step
    /\ ptr \in Live
    /\ NodeOK(Cur, ptr - SizeofHeader)
    /\ \E S \in {tufree(Put(Cur, ptr - WordSize, 0), ptr)} : Return(Res(S, NULL, 0))
    /\ live' = IF status' = "running" THEN Disown(live, ptr) ELSE live
    /\ op' = Release("damaged tufree", ptr, live[ptr])

Next ==
    \/ \E size \in Sizes : Malloc(size)
    \/ \E num \in Counts, size \in ElemSizes : Calloc(num, size)
    \/ \E ptr \in Live \cup {NULL}, size \in Sizes, fwd \in BOOLEAN :
          Realloc(ptr, size, fwd)
    \/ \E ptr \in Live : Free(ptr)
    \/ \E ptr \in Live : Fill(ptr)
    \/ \E ptr \in Live : DamagedFree(ptr)

Spec == Init /\ [][Next]_vars

\* the same caller, never asking for zero bytes
NextPos ==
    \/ \E size \in Sizes \ {0} : Malloc(size)
    \/ \E num \in Counts \ {0}, size \in ElemSizes \ {0} : Calloc(num, size)
    \/ \E ptr \in Live \cup {NULL}, size \in Sizes \ {0}, fwd \in BOOLEAN :
          Realloc(ptr, size, fwd)
    \/ \E ptr \in Live : Free(ptr)
    \/ \E ptr \in Live : Fill(ptr)
    \/ \E ptr \in Live : DamagedFree(ptr)

SpecPos == Init /\ [][NextPos]_vars

\* a caller that only allocates and releases
NextAR ==
    \/ \E size \in Sizes : Malloc(size)
    \/ \E ptr \in Live : Free(ptr)

SpecAR == Init /\ [][NextAR]_vars

---------------------------------------------------------------------------
(* Views of the state used by the properties *)

\* the free list as the scans see it: the nodes from HEAD, in list order, up
\* to NULL (or to the first node outside the region or met twice)
RECURSIVE FreeSeq(_, _, _)
FreeSeq(S, curr, seen) ==
    IF curr = NULL \/ ~NodeOK(S, curr) \/ curr \in seen THEN <<>>
    ELSE <<[at |-> curr, size |-> S.mem[curr]]>>
         \o FreeSeq(S, S.mem[curr + WordSize], seen \cup {curr})

FreeList == FreeSeq(Cur, HEAD, {})

\* the byte range [a, a + n) as a set of word addresses
Range(a, n) == {x \in Addr : a <= x /\ x < a + n}

Payload(p) == Range(p, live[p].size)

HeaderOf(p) == Range(p - SizeofHeader, SizeofHeader)

\* tumalloc(size) called now would ask the region source and be refused
RegionFails(size) ==
    /\ HEAD = NULL \/ first_fit(Cur, size) = Found(NULL)
    /\ ~sbrk_ok(Cur, RoundUp(size + SizeofHeader))

\* a call returned and left the allocator state as it was
Untouched == HEAD' = HEAD /\ mem' = mem /\ brk' = brk /\ status' = "running"

---------------------------------------------------------------------------
(* C1: after release(p) of a pointer that came from allocate(s), s > 0, the *)
(* next allocate(s2) with 0 < s2 <= s returns p again and the break does    *)
(* not move.                                                                *)
C1_ReuseJustFreed ==
    [][\A s2 \in Sizes :
          (/\ op.name = "tufree" /\ status = "running"
           /\ 0 < s2 /\ s2 <= op.size
           /\ Malloc(s2))
          => (ret' = op.ptr /\ brk' = brk)]_vars

(* C2: no two live blocks overlap: the payloads of two distinct live        *)
(* pointers are disjoint and no live payload covers another live header.    *)
C2_NoOverlap ==
    \A p \in Live : \A q \in Live \ {p} :
        /\ Payload(p) \cap Payload(q) = {}
        /\ Payload(p) \cap HeaderOf(q) = {}

(* C3: two blocks carved back-to-back from the region and released one      *)
(* after the other, in either order, leave one free-list entry of size      *)
(* size1 + size2 + sizeof(header); an allocate of exactly that size is then *)
(* served from it without region growth.                                    *)
C3_AdjacentMerge ==
    [][/\ \A q \in Live :
            (/\ op.name = "tufree" /\ status = "running"
             /\ FreeList = <<[at |-> op.ptr - SizeofHeader, size |-> op.size]>>
             /\ op.ext = RoundUp(op.size + SizeofHeader)
             /\ live[q].ext = RoundUp(live[q].size + SizeofHeader)
             /\ \/ q - SizeofHeader = op.ptr - SizeofHeader + op.ext
                \/ op.ptr - SizeofHeader = q - SizeofHeader + live[q].ext
             /\ Free(q))
            => FreeList' = <<[at |-> IF q < op.ptr THEN q - SizeofHeader
                                     ELSE op.ptr - SizeofHeader,
                              size |-> op.size + live[q].size + SizeofHeader]>>
       /\ \A s \in Sizes :
            (/\ op.name = "tufree" /\ status = "running"
             /\ Len(FreeList) = 1 /\ FreeList[1].size = s /\ s > op.size
             /\ Malloc(s))
            => (ret' = FreeList[1].at + SizeofHeader /\ brk' = brk)]_vars

C5_ZeroSizeFails ==
    [][(\/ Malloc(0)
        \/ \E num \in Counts, size \in ElemSizes : num * size = 0 /\ Calloc(num, size))
       => (ret' = NULL /\ FreeList' = FreeList /\ brk' = brk)]_vars

(* C6: when the region source refuses, allocate returns null, writes no     *)
(* header and leaves the free list and the break unchanged, with the free   *)
(* list empty or holding no block large enough.                             *)
C6_RegionFailure ==
    [][\A s \in Sizes :
          (RegionFails(s) /\ Malloc(s)) => (ret' = NULL /\ Untouched)]_vars

(* C7: every byte carved from the region lies in a live allocated block or  *)
(* in a free block reachable from the list head (a free block counted with  *)
(* the padding that rounds it up to the alignment).                         *)
C7_NoLeak ==
    status = "running" =>
        \A a \in Range(HeapBase, brk - HeapBase) :
            \/ \E p \in Live : a \in Range(p - SizeofHeader, live[p].ext)
            \/ \E i \in 1..Len(FreeList) :
                  a \in Range(FreeList[i].at, RoundUp(FreeList[i].size + SizeofFreeBlock))

(* C8: release(p) on a block whose sentinel is not the magic constant ends  *)
(* the process in abort() and leaves the list head, every word of the       *)
(* region and the break as they were when release was called.               *)
C8_CorruptionAborts ==
    [][/\ (op'.name = "tufree" /\ mem[op'.ptr - WordSize] # MAGIC)
            => (status' = "aborted" /\ HEAD' = HEAD /\ brk' = brk /\ mem' = mem)
       /\ op'.name = "damaged tufree"
            => (/\ status' = "aborted" /\ HEAD' = HEAD /\ brk' = brk
                /\ mem' = [mem EXCEPT ![op'.ptr - WordSize] = 0])]_vars

C8_Witness == status = "aborted" /\ op.name = "damaged tufree"

(* C9: resize(p, newSize) of a live p whose header records a size >=        *)
(* newSize > 0 returns p and changes nothing: header, free list and break.  *)
C9_ShrinkIsNoOp ==
    [][\A n \in Sizes \ {0} : \A fwd \in BOOLEAN :
          (/\ op'.name = "turealloc" /\ op'.ptr \in Live
           /\ mem[op'.ptr - SizeofHeader] >= n
           /\ Realloc(op'.ptr, n, fwd))
          => (ret' = op'.ptr /\ Untouched)]_vars

C9_Witness ==
    /\ op.name = "turealloc" /\ status = "running"
    /\ ret # NULL /\ ret = op.ptr
    /\ ret \in Live /\ mem[ret - SizeofHeader] > 0

(* C10: a successful resize(p, newSize) of a live p whose header records    *)
(* less than newSize returns q # p whose header records newSize and whose   *)
(* first min(old size, newSize) bytes are the bytes p held at the call.     *)
C10_GrowCopies ==
    [][\A p \in Live : \A n \in Sizes : \A fwd \in BOOLEAN :
          (/\ mem[p - SizeofHeader] < n
           /\ Realloc(p, n, fwd)
           /\ status' = "running" /\ ret' # NULL)
          => (/\ ret' # p
              /\ mem'[ret' - SizeofHeader] = n
              /\ \A a \in Words(p, mem[p - SizeofHeader]) :
                    /\ a \in Addr /\ ret' + (a - p) \in Addr
                    /\ mem'[ret' + (a - p)] = mem[a])]_vars

(* C11: a growing resize(p, newSize), newSize above the recorded size of    *)
(* the live p, returns (null when the fresh allocation fails) and leaves    *)
(* p's header, size and sentinel, unchanged and p's block off the free      *)
(* list.                                                                    *)
C11_GrowKeepsOriginal ==
    [][\A p \in Live : \A n \in Sizes : \A fwd \in BOOLEAN :
          (/\ op'.name = "turealloc" /\ op'.ptr = p
           /\ mem[p - SizeofHeader] < n
           /\ Realloc(p, n, fwd))
          => (/\ status' = "running"
              /\ mem'[p - SizeofHeader] = mem[p - SizeofHeader]
              /\ mem'[p - WordSize] = mem[p - WordSize]
              /\ \A i \in 1..Len(FreeList') : FreeList'[i].at # p - SizeofHeader
              /\ RegionFails(n) => (ret' = NULL /\ Untouched))]_vars

(* C12: resize(null, s) returns the pointer and leaves the state that       *)
(* allocate(s) does; resize(p, 0) of a live p leaves the state that         *)
(* release(p) does and returns null.                                        *)
C12_ResizeDelegates ==
    [][/\ \A s \in Sizes :
            (op'.name = "turealloc" /\ op'.ptr = NULL /\ Realloc(NULL, s, TRUE))
            => \E R \in {tumalloc(Cur, s)} : Return(R)
       /\ \A p \in Live :
            (op'.name = "turealloc" /\ op'.ptr = p /\ Realloc(p, 0, TRUE))
            => (/\ ret' = NULL
                /\ \E S \in {tufree(Cur, p)} : Return(Res(S, NULL, 0)))]_vars

C12_Witness ==
    /\ op.name = "turealloc" /\ status = "running"
    /\ op.ptr # NULL /\ op.ptr \notin Live
    /\ HEAD # NULL /\ ret = NULL

(* C13: a successful zeroAllocate(count, size) with count * size > 0        *)
(* returns a block whose header records count * size and whose count * size *)
(* payload bytes are all zero, also when the block is reused.               *)
C13_CallocZeroes ==
    [][\A num \in Counts : \A size \in ElemSizes :
          (/\ op'.name = "tucalloc" /\ num * size > 0
           /\ Calloc(num, size)
           /\ status' = "running" /\ ret' # NULL)
          => (/\ mem'[ret' - SizeofHeader] = num * size
              /\ \A a \in Words(ret', num * size) : mem'[a] = 0)]_vars

\* the one block carved so far was filled by the caller, released and reused:
\* the bytes behind the zeroed payload still hold the caller's data
C13_Witness ==
    /\ op.name = "tucalloc" /\ status = "running" /\ ret # NULL
    /\ brk = HeapBase + 48
    /\ mem[ret] = 0 /\ mem[ret + WordSize] = 0
    /\ mem[ret + 2 * WordSize] = Data

\* the bytes of the i-th node of the free list: its two fields and the size
\* it records
NodeRange(i) == Range(FreeList[i].at, FreeList[i].size + SizeofFreeBlock)

\* the nodes of the free list are apart from each other and from every live
\* block
ListSound ==
    /\ \A i \in 1..Len(FreeList) : \A j \in 1..Len(FreeList) :
          i # j => NodeRange(i) \cap NodeRange(j) = {}
    /\ \A i \in 1..Len(FreeList) : \A p \in Live :
          NodeRange(i) \cap (HeaderOf(p) \cup Payload(p)) = {}

(* C14: when allocate reuses a free block of a sound list and the split     *)
(* succeeds, the remainder is on the free list afterwards in the place the  *)
(* original node had, and only the first piece has left the list.           *)
C14_SplitKeepsRemainder ==
    [][\A s \in Sizes : \A i \in 1..Len(FreeList) :
          (/\ op'.name = "tumalloc" /\ Malloc(s) /\ status' = "running"
           /\ ListSound
           /\ s + SizeofHeader <= FreeList[i].size
           /\ \A j \in 1..(i - 1) : FreeList[j].size < s + SizeofHeader
           /\ FreeList[i].size >= s + SizeofHeader + SizeofFreeBlock)
          => FreeList' =
                [FreeList EXCEPT
                    ![i] = [at |-> FreeList[i].at + s + SizeofHeader + SizeofFreeBlock,
                            size |-> FreeList[i].size - s - SizeofHeader
                                        - SizeofFreeBlock]]]_vars

\* the addresses of the nodes of a list
Nodes(list) == {list[i].at : i \in 1..Len(list)}

\* the state in which tufree(ptr) calls coalesce: the block is pushed at HEAD
Pushed(ptr) ==
    [Put(Cur, ptr - WordSize, HEAD) EXCEPT !.HEAD = ptr - SizeofHeader]

\* release(ptr) of a sound list merges the block, or the previous neighbour
\* that absorbed it, with the next neighbour that find_next found
MergesNext(ptr) ==
    LET S3 == Pushed(ptr)
        block == ptr - SizeofHeader
        p == find_prev(S3, block)
        n == find_next(S3, block)
    IN /\ p.k = "ok" /\ n.k = "ok" /\ n.v # NULL
       /\ \E c \in {coalesce_prev(S3, block, p.v)} :
             c.block + c.S.mem[c.block] + SizeofFreeBlock = n.v

(* C15: when release merges a block with its address-adjacent next          *)
(* neighbour, only that neighbour leaves the free list: every other node    *)
(* that was reachable from the head before the call is reachable after it.  *)
C15_MergeNextDropsOnlyNext ==
    [][\A ptr \in Live :
          (/\ op'.name = "tufree" /\ op'.ptr = ptr /\ Free(ptr)
           /\ status' = "running"
           /\ ListSound
           /\ MergesNext(ptr))
          => \A a \in Nodes(FreeList) :
                a # find_next(Pushed(ptr), ptr - SizeofHeader).v
                   => a \in Nodes(FreeList')]_vars

\* the positions, in list order, of the nodes large enough for a request
Fits(s) == {i \in 1..Len(FreeList) : s + SizeofHeader <= FreeList[i].size}

First(I) == CHOOSE i \in I : \A j \in I : i <= j

(* C16: with a non-empty free list, allocate(size) that returns reuses the  *)
(* first node in list order whose size is at least size + sizeof(header),   *)
(* and takes fresh memory from the region only if no node passes that test. *)
C16_FirstFit ==
    [][\A s \in Sizes :
          (/\ op'.name = "tumalloc" /\ HEAD # NULL
           /\ Malloc(s) /\ status' = "running")
          => IF Fits(s) # {}
             THEN /\ ret' = FreeList[First(Fits(s))].at + SizeofHeader
                  /\ brk' = brk
             ELSE /\ ret' = brk + SizeofHeader
                  /\ brk' = brk + RoundUp(s + SizeofHeader)]_vars

\* a block was reused (it is larger than a fresh one would be) and the node
\* now at the head of the list is too small for the request
C16_Witness ==
    /\ op.name = "tumalloc" /\ status = "running" /\ ret \in Live
    /\ live[ret].size > 0
    /\ live[ret].ext > RoundUp(live[ret].size + SizeofHeader)
    /\ HEAD # NULL /\ NodeOK(Cur, HEAD)
    /\ mem[HEAD] < live[ret].size + SizeofHeader
    /\ HEAD < ret - SizeofHeader

(* C17: right after release(p) has pushed p's block and coalesced it, a      *)
(* second coalesce of the same block returns and leaves the list head and   *)
(* every node's size and link as the first call left them.                  *)
C17_CoalesceIdempotent ==
    (op.name = "tufree" /\ status = "running")
        => coalesce(Cur, op.ptr - SizeofHeader) = Cur

(* C18: every block's footprint is a multiple of 16: for every live header  *)
(* and every node of the free list, sizeof(header) plus the recorded size   *)
(* is a multiple of the alignment.                                          *)
C18_FootprintAligned ==
    status = "running" =>
        /\ \A p \in Live :
              (SizeofHeader + mem[p - SizeofHeader]) % ALIGNMENT = 0
        /\ \A i \in 1..Len(FreeList) :
              (SizeofFreeBlock + FreeList[i].size) % ALIGNMENT = 0

\* walking from HEAD meets a node a second time
RECURSIVE Cyclic(_, _, _)
Cyclic(S, curr, seen) ==
    IF curr = NULL \/ ~NodeOK(S, curr) THEN FALSE
    ELSE IF curr \in seen THEN TRUE
    ELSE Cyclic(S, S.mem[curr + WordSize], seen \cup {curr})

(* C19: after any sequence of allocate and release calls on live pointers   *)
(* the free list is a finite chain ending in nil, with no cycle and no node *)
(* twice, and no call's scan of the list runs forever.                      *)
C19_ListTerminates ==
    /\ status # "hung"
    /\ ~Cyclic(Cur, HEAD, {})

(* C20: the nodes reachable from the list head are pairwise disjoint and    *)
(* disjoint from every live block, header and payload.                      *)
C20_FreeDisjoint ==
    status = "running" => ListSound

====
